---------------------------- MODULE Spec2Model ----------------------------
(***************************************************************************)
(* Model of rc_thermal_scheduler.c: the RC thermal prediction, the         *)
(* hysteresis decision of main()'s loop and the rate-limited               *)
(* enable_mitigation()/disable_mitigation() actuation on the device file   *)
(* scaling_max_freq.                                                       *)
(*                                                                         *)
(* Units.  Temperatures and powers are C doubles in the source.  Here a    *)
(* temperature of V degrees Celsius is the integer V * Scale, a power of   *)
(* V watts is V * Scale; with the inputs being integers of milli-degrees   *)
(* and kHz every quantity of the prediction is an exact integer.           *)
(* Frequencies of scaling_max_freq are the C ints of the source.           *)
(***************************************************************************)
EXTENDS Integers, Sequences, FiniteSets, TLC

(* ------------------------------ bounds --------------------------------- *)
StartTime == 5      \* time(NULL) when the loop starts (any value >= ACTION_COOLDOWN)
MaxTime   == 16     \* the clock is not advanced past this value
MaxDrift  == 1      \* seconds that may pass between can_act() and the stamp
MaxSleep  == 1      \* seconds a sleep((int)DT) may take (at least DT)

(* --------------------------- program constants ------------------------- *)
Scale           == 20 * 1000000
R_THERMAL       == 1
C_THERMAL       == 10
T_AMBIENT       == 30 * Scale
DT              == 1
T_HIGH          == 75 * Scale
T_LOW           == 70 * Scale
T_CRITICAL      == 85 * Scale
ALPHA           == 5
ACTION_COOLDOWN == 5

(* ------------------------------ inputs --------------------------------- *)
\* contents of thermal_zone0/temp (milli-degrees) and scaling_cur_freq (kHz);
\* predicted: 57.7, 70.0, 70.3, 75.0, 75.0009, 86.5 degrees, and a negative
\* reading.  For each of them the double the source computes compares with
\* the watermarks as the exact value does.
SensorSamples == { <<60000, 2000000>>, <<73900, 1400000>>, <<74000, 2000000>>,
                   <<80000, 0>>, <<80001, 0>>, <<92000, 2000000>>,
                   <<-500, 2000000>> }
\* the samples tried together with an unreadable sensor file
FailSamples   == { <<60000, 2000000>>, <<-500, 2000000>> }
FileOutcomes  == {"ok", "nofile"}             \* fopen() succeeded / returned NULL
\* read_max_frequency(): the file opens and holds an integer ("ok"), does not
\* open ("nofile"), or opens and fscanf() stores nothing ("noparse"), where
\* the local int is returned unassigned, here as 0 or 170
ReadResults   == { <<"ok", 0>>, <<"nofile", 0>>, <<"noparse", 0>>, <<"noparse", 170>> }
StartFreqs    == {10, 90}                     \* scaling_max_freq when the loop starts

(* --------------------------- device accessors -------------------------- *)
\* read_temperature(): -1.0 when the file cannot be opened, else temp_milli / 1000.0
read_temperature(o, temp_milli) ==
    IF o = "nofile" THEN -1 * Scale ELSE temp_milli * (Scale \div 1000)

\* read_frequency(): -1.0 when the file cannot be opened, else freq_khz / 1e6 (GHz)
read_frequency(o, freq_khz) ==
    IF o = "nofile" THEN -1 * Scale ELSE freq_khz * (Scale \div 1000000)

\* read_max_frequency(): -1 when the file cannot be opened, the file's integer
\* when fscanf() converts it, the unassigned local otherwise
read_max_frequency(dev, o, g) ==
    CASE o = "nofile"  -> -1
      [] o = "ok"      -> dev
      [] o = "noparse" -> g

\* write_max_frequency(): the file is left alone when it cannot be opened
write_max_frequency(dev, freq, wok) ==
    IF wok THEN freq ELSE dev

\* estimate_utilization(): 0.7, as the fraction 7/10
estimate_utilization == <<7, 10>>

(* ------------------------------ RC model ------------------------------- *)
\* power = ALPHA * util * freq
estimate_power(util, freq) == (ALPHA * util[1] * freq) \div util[2]

predict_temperature(T_curr, power, Tamb, R, C, dt) ==
    T_curr + (dt * (power - (T_curr - Tamb) \div R)) \div C

(* --------------------------- mitigation logic -------------------------- *)
RECURSIVE Pow2Floor(_)
Pow2Floor(n) == IF n < 2 THEN 1 ELSE 2 * Pow2Floor(n \div 2)

\* (int)(original_max_freq * 0.7): the product is taken in double precision,
\* where 0.7 is 0.7 - 0.4 * 2^-53.  The rounded product is the exact 7F/10
\* truncated, except when 7F/10 is an integer lying above 7/4 of the power of
\* two below it: there the double is one ulp under the integer.
ReducedFreq(F) ==
    LET n == (7 * F) \div 10
    IN  IF F % 10 = 0 /\ 4 * n > 7 * Pow2Floor(n) THEN n - 1 ELSE n

\* can_act() with the comparison weakened to "some time has passed"
can_act_early(last, t) == t - last > 0

\* can_act() with a strict comparison
can_act_late(last, t) == t - last > ACTION_COOLDOWN

\* can_act(): difftime(now, last_action_time) >= ACTION_COOLDOWN
can_act(last, t) == t - last >= ACTION_COOLDOWN

\* enable_mitigation() without the test of the value read
enable_mitigation_unchecked(s, t, stamp, o, g, wok) ==
    IF s.active = 1 \/ ~can_act(s.last, t)
    THEN s
    ELSE LET r == read_max_frequency(s.dev, o, g)
         IN  [active |-> 1, last |-> stamp, orig |-> r,
              dev |-> write_max_frequency(s.dev, (7 * r) \div 10, wok)]

\* enable_mitigation() stamping last_action_time before the value read is
\* tested
enable_mitigation_stamp_first(s, t, stamp, o, g, wok) ==
    IF s.active = 1 \/ ~can_act(s.last, t)
    THEN s
    ELSE LET r == read_max_frequency(s.dev, o, g)
         IN  IF r <= 0
             THEN [s EXCEPT !.orig = r, !.last = stamp]
             ELSE [active |-> 1, last |-> stamp, orig |-> r,
                   dev |-> write_max_frequency(s.dev, ReducedFreq(r), wok)]

\* s = [active, last, orig, dev]; t: time(NULL) in can_act(); stamp: time(NULL)
\* at the assignment of last_action_time
enable_mitigation(s, t, stamp, o, g, wok) ==
    IF s.active = 1 \/ ~can_act(s.last, t)
    THEN s
    ELSE LET r == read_max_frequency(s.dev, o, g)
         IN  IF r <= 0
             THEN [s EXCEPT !.orig = r]
             ELSE [active |-> 1, last |-> stamp, orig |-> r,
                   dev |-> write_max_frequency(s.dev, ReducedFreq(r), wok)]

\* disable_mitigation() recording the transition only when the original value
\* was written back
disable_mitigation_needs_write(s, t, stamp, wok) ==
    IF s.active = 0 \/ ~can_act(s.last, t) \/ ~(s.orig > 0 /\ wok)
    THEN s
    ELSE [active |-> 0, last |-> stamp, orig |-> s.orig,
          dev |-> write_max_frequency(s.dev, s.orig, wok)]

\* if (!mitigation_active || !can_act()) return; the write only for a
\* positive original_max_freq; the flag and the stamp in every case
disable_mitigation(s, t, stamp, wok) ==
    IF s.active = 0 \/ ~can_act(s.last, t)
    THEN s
    ELSE [active |-> 0, last |-> stamp, orig |-> s.orig,
          dev |-> IF s.orig > 0
                  THEN write_max_frequency(s.dev, s.orig, wok)
                  ELSE s.dev]

(* ------------------------------- state --------------------------------- *)
VARIABLES
    mitigation_active,   \* static int mitigation_active
    last_action_time,    \* static time_t last_action_time
    original_max_freq,   \* static int original_max_freq
    scaling_max_freq,    \* contents of FREQ_MAX_PATH
    now,                 \* the wall clock, time(NULL)
    ev,                  \* what the last iteration of the loop read and did
    hist                 \* facts about the run so far

vars == <<mitigation_active, last_action_time, original_max_freq,
          scaling_max_freq, now, ev, hist>>

State == [active |-> mitigation_active, last |-> last_action_time,
          orig |-> original_max_freq, dev |-> scaling_max_freq]

NoEvent == [branch |-> "start", call |-> "none", T_curr |-> 0, freq |-> 0,
            T_pred |-> 0, pre |-> [active |-> 0, last |-> 0, orig |-> -1, dev |-> 0],
            t |-> 0, stamp |-> 0, rdo |-> "skipped", rdv |-> 0, w |-> "none",
            status |-> 0, critical |-> 0]

Init ==
    /\ mitigation_active = 0
    /\ last_action_time = 0
    /\ original_max_freq = -1
    /\ scaling_max_freq \in StartFreqs
    /\ now = StartTime
    /\ ev = [NoEvent EXCEPT !.pre.dev = scaling_max_freq]
    /\ hist = [f0 |-> scaling_max_freq, ever_set |-> FALSE,
               dev_at_enable |-> 0, read_at_enable |-> 0, how_at_enable |-> "none",
               prev_stamp |-> -1, prev_req |-> -1, req |-> -1,
               applied |-> 0, unassigned |-> FALSE]

(* ------------------------- one loop iteration -------------------------- *)
\* write_max_frequency() without the test of fp: writing through the NULL
\* stream ends the process
Returns_nullstream(didwrite, wok, d, sl) ==
    /\ didwrite => wok
    /\ now + d + sl <= MaxTime

\* An iteration always reaches the end of its sleep(): every fopen() result is
\* tested and the function returns early, no path leaves the while (1).  The
\* only limit is the horizon of the clock.
Returns(didwrite, wok, d, sl) ==
    now + d + sl <= MaxTime

\* The body of while (1) from the sensor reads to the end of sleep().
\* call: the mitigation function this iteration calls; o, g, wok: what the
\* device file does if it is read or written; d: seconds between can_act()
\* and the stamp; sl: seconds from the stamp to the next iteration.
Iterate(branch, call, T_curr, freq, T_pred, status, critical, o, g, wok, d, sl) ==
    LET pre     == State
        t       == now
        stamp   == now + d
        post    == CASE call = "enable"  -> enable_mitigation(pre, t, stamp, o, g, wok)
                     [] call = "disable" -> disable_mitigation(pre, t, stamp, wok)
                     [] OTHER            -> pre
        passed  == can_act(pre.last, t)
        didread == call = "enable" /\ pre.active = 0 /\ passed
        rdv     == IF didread THEN read_max_frequency(pre.dev, o, g) ELSE 0
        didwrite == \/ didread /\ rdv > 0
                    \/ call = "disable" /\ pre.active = 1 /\ passed /\ pre.orig > 0
        applied == post.active # pre.active
    IN  /\ Returns(didwrite, wok, d, sl)
        /\ mitigation_active' = post.active
        /\ last_action_time'  = post.last
        /\ original_max_freq' = post.orig
        /\ scaling_max_freq'  = post.dev
        /\ now' = now + d + sl
        /\ ev' = [branch |-> branch, call |-> call, T_curr |-> T_curr,
                  freq |-> freq, T_pred |-> T_pred, pre |-> pre, t |-> t,
                  stamp |-> IF applied THEN stamp ELSE 0,
                  rdo |-> IF didread THEN o ELSE "skipped", rdv |-> rdv,
                  w |-> IF didwrite THEN (IF wok THEN "ok" ELSE "fail") ELSE "none",
                  status |-> status, critical |-> critical]
        /\ hist' = IF ~applied THEN hist
                   ELSE [hist EXCEPT
                           !.ever_set = @ \/ call = "enable",
                           !.dev_at_enable = IF call = "enable" THEN pre.dev ELSE @,
                           !.read_at_enable = IF call = "enable" THEN rdv ELSE @,
                           !.how_at_enable = IF call = "enable" THEN o ELSE @,
                           !.prev_stamp = IF hist.applied > 0 THEN pre.last ELSE -1,
                           !.prev_req = hist.req,
                           !.req = t,
                           !.applied = @ + 1,
                           !.unassigned = @ \/ (call = "enable" /\ o = "noparse")]

\* the sensor values main() obtains in this iteration
Sensed(smp, to, fo) ==
    [T_curr |-> read_temperature(to, smp[1]), freq |-> read_frequency(fo, smp[2])]

\* the decision taken on the current temperature, without the prediction
Predicted_current(x) == x.T_curr

Predicted(x) ==
    predict_temperature(x.T_curr, estimate_power(estimate_utilization, x.freq),
                        T_AMBIENT, R_THERMAL, C_THERMAL, DT)

\* the critical report tested against the high watermark
CriticalLine_high(T_pred) == IF T_pred > T_HIGH THEN 1 ELSE 0

\* if (T_pred > T_CRITICAL) printf("CRITICAL ..."): the number of such lines
CriticalLine(T_pred) == IF T_pred > T_CRITICAL THEN 1 ELSE 0

\* the hysteresis test with the low watermark itself treated as cold
Decision_inclusive(T_pred) ==
    IF T_pred > T_HIGH THEN "enable"
    ELSE IF T_pred <= T_LOW THEN "disable"
    ELSE "none"

\* the hysteresis test of main(): which mitigation function is called
Decision(T_pred) ==
    IF T_pred > T_HIGH THEN "enable"
    ELSE IF T_pred < T_LOW THEN "disable"
    ELSE "none"

\* The device file is only consulted past the guards of enable_mitigation()
\* and disable_mitigation(); its behaviour is chosen only when it is used.
ReadChoices ==
    IF mitigation_active = 0 /\ can_act(last_action_time, now)
    THEN ReadResults ELSE {<<"ok", 0>>}

EnableWriteChoices(rr) ==
    IF /\ mitigation_active = 0 /\ can_act(last_action_time, now)
       /\ read_max_frequency(scaling_max_freq, rr[1], rr[2]) > 0
    THEN BOOLEAN ELSE {TRUE}

DisableWriteChoices ==
    IF /\ mitigation_active = 1 /\ can_act(last_action_time, now)
       /\ original_max_freq > 0
    THEN BOOLEAN ELSE {TRUE}

\* if (T_curr < 0 || freq < 0) { disable_mitigation(); sleep; continue; }
SensorFailTick ==
    \E smp \in FailSamples, to \in FileOutcomes, fo \in FileOutcomes,
       wok \in DisableWriteChoices, d \in 0..MaxDrift, sl \in DT..MaxSleep :
        LET x == Sensed(smp, to, fo)
        IN  /\ x.T_curr < 0 \/ x.freq < 0
            /\ Iterate("sensor_fail", "disable", x.T_curr, x.freq, 0, 0, 0,
                       "ok", 0, wok, d, sl)

\* if (T_pred > T_HIGH) enable_mitigation();
HotTick ==
    \E smp \in SensorSamples, rr \in ReadChoices, d \in 0..MaxDrift,
       sl \in DT..MaxSleep :
      \E wok \in EnableWriteChoices(rr) :
        LET x == Sensed(smp, "ok", "ok")
            p == Predicted(x)
        IN  /\ ~(x.T_curr < 0 \/ x.freq < 0)
            /\ Decision(p) = "enable"
            /\ Iterate("hot", "enable", x.T_curr, x.freq, p, 1, CriticalLine(p),
                       rr[1], rr[2], wok, d, sl)

\* else if (T_pred < T_LOW) disable_mitigation();
ColdTick ==
    \E smp \in SensorSamples, wok \in DisableWriteChoices, d \in 0..MaxDrift,
       sl \in DT..MaxSleep :
        LET x == Sensed(smp, "ok", "ok")
            p == Predicted(x)
        IN  /\ ~(x.T_curr < 0 \/ x.freq < 0)
            /\ Decision(p) = "disable"
            /\ Iterate("cold", "disable", x.T_curr, x.freq, p, 1, CriticalLine(p),
                       "ok", 0, wok, d, sl)

\* neither branch of the hysteresis test
DeadZoneTick ==
    \E smp \in SensorSamples, d \in 0..MaxDrift, sl \in DT..MaxSleep :
        LET x == Sensed(smp, "ok", "ok")
            p == Predicted(x)
        IN  /\ ~(x.T_curr < 0 \/ x.freq < 0)
            /\ Decision(p) = "none"
            /\ Iterate("dead", "none", x.T_curr, x.freq, p, 1, CriticalLine(p),
                       "ok", 0, TRUE, d, sl)

\* one iteration with every outcome given: the sensor files, the read and the
\* write of scaling_max_freq, the time taken
TickWith(smp, to, fo, rr, wok, d, sl) ==
    LET x == Sensed(smp, to, fo)
    IN  IF x.T_curr < 0 \/ x.freq < 0
        THEN Iterate("sensor_fail", "disable", x.T_curr, x.freq, 0, 0, 0,
                     "ok", 0, wok, d, sl)
        ELSE LET p    == Predicted(x)
                 call == Decision(p)
             IN  Iterate(CASE call = "enable"  -> "hot"
                           [] call = "disable" -> "cold"
                           [] OTHER            -> "dead",
                         call, x.T_curr, x.freq, p, 1, CriticalLine(p),
                         rr[1], rr[2], wok, d, sl)

Next == SensorFailTick \/ HotTick \/ ColdTick \/ DeadZoneTick

Spec == Init /\ [][Next]_vars

TypeOK ==
    /\ mitigation_active \in {0, 1}
    /\ last_action_time \in 0..MaxTime
    /\ now \in StartTime..MaxTime
    /\ original_max_freq \in Int
    /\ scaling_max_freq \in Int

(* ----------------------------- properties ------------------------------ *)
\* the last iteration flipped mitigation_active
Applied == ev.branch # "start" /\ mitigation_active # ev.pre.active

\* the last iteration called enable_mitigation() and the call passed its guard
EnableRan == ev.call = "enable" /\ ev.pre.active = 0 /\ can_act(ev.pre.last, ev.t)

\* C1: every applied transition is requested at a time t with
\* t - last_action_time >= ACTION_COOLDOWN; two successive applied
\* transitions are stamped at least ACTION_COOLDOWN apart, and so are the
\* requests that produced them (of two requests closer than that, at most
\* one is applied).
C1_CooldownEnforced ==
    /\ Applied => ev.t - ev.pre.last >= ACTION_COOLDOWN
    /\ hist.prev_stamp # -1 => last_action_time - hist.prev_stamp >= ACTION_COOLDOWN
    /\ hist.prev_req # -1 => hist.req - hist.prev_req >= ACTION_COOLDOWN

\* an enable and then a disable have both been applied
C1_Witness ==
    /\ Applied /\ ev.call = "disable"
    /\ hist.applied >= 2
    /\ hist.prev_stamp >= StartTime

\* C2: after an applied enable_mitigation() that read the device value F and
\* then an applied disable_mitigation(), scaling_max_freq holds F, the value
\* it had immediately before the enable.
C2_Reversible ==
    (Applied /\ ev.call = "disable" /\ hist.how_at_enable = "ok") =>
        scaling_max_freq = hist.dev_at_enable

\* C3: when write_max_frequency() fails inside enable_mitigation(), the call
\* leaves mitigation_active at 0 and original_max_freq and last_action_time at
\* their values before the call.
C3_NoPartialEnable ==
    (ev.call = "enable" /\ ev.w = "fail") =>
        /\ mitigation_active = 0
        /\ original_max_freq = ev.pre.orig
        /\ last_action_time = ev.pre.last

\* C4: at the end of every iteration in which read_temperature() or
\* read_frequency() returned a negative value, mitigation_active is 0.
C4_FailSafe ==
    (ev.branch # "start" /\ (ev.T_curr < 0 \/ ev.freq < 0)) => mitigation_active = 0

\* C5: an iteration with valid sensors whose predicted temperature lies in
\* [T_LOW, T_HIGH], boundaries included, changes none of mitigation_active,
\* original_max_freq, last_action_time and scaling_max_freq.
C5_DeadZone ==
    (/\ ev.branch # "start" /\ ev.T_curr >= 0 /\ ev.freq >= 0
     /\ T_LOW <= ev.T_pred /\ ev.T_pred <= T_HIGH) => State = ev.pre

\* the predicted temperature sits on the low watermark while mitigation is
\* active and the cooldown has elapsed
C5_Witness ==
    /\ ev.branch # "start" /\ ev.T_curr >= 0 /\ ev.freq >= 0
    /\ ev.T_pred = T_LOW
    /\ ev.pre.active = 1
    /\ can_act(ev.pre.last, ev.t)

\* C6: when write_max_frequency() fails inside disable_mitigation(), the
\* transition is not recorded: mitigation_active stays 1 and
\* last_action_time is unchanged.
C6_RestoreNotRecorded ==
    (ev.call = "disable" /\ ev.w = "fail") =>
        /\ mitigation_active = 1
        /\ last_action_time = ev.pre.last

C8_InactiveRestored ==
    mitigation_active = 0 =>
        scaling_max_freq = IF hist.ever_set THEN original_max_freq ELSE hist.f0

\* C9: a call of enable_mitigation() made while mitigation is active, or
\* before the cooldown has elapsed, or in which read_max_frequency() returns a
\* non-positive value (the -1 of a file that does not open, or a file content
\* that is not positive), changes none of mitigation_active,
\* original_max_freq, last_action_time and scaling_max_freq.
C9_EnableNoOp ==
    (/\ ev.call = "enable"
     /\ \/ ev.pre.active = 1
        \/ ~can_act(ev.pre.last, ev.t)
        \/ (ev.rdo \in {"ok", "nofile"} /\ ev.rdv <= 0)) => State = ev.pre

\* C10: after enable_mitigation() ran with mitigation inactive, the cooldown
\* elapsed, the device value F > 0 read and the write succeeding,
\* original_max_freq = F, scaling_max_freq = floor(F * 7 / 10),
\* mitigation_active = 1 and last_action_time is the time of the stamp.
C10_EnableEffect ==
    (EnableRan /\ ev.rdo = "ok" /\ ev.rdv > 0 /\ ev.w = "ok") =>
        /\ original_max_freq = ev.pre.dev
        /\ scaling_max_freq = (7 * ev.pre.dev) \div 10
        /\ mitigation_active = 1
        /\ last_action_time = ev.stamp
        /\ ev.stamp >= ev.t

\* the last iteration had both sensor values non-negative
ValidTick == ev.branch # "start" /\ ev.T_curr >= 0 /\ ev.freq >= 0

\* C11: every iteration of the loop emits exactly one status report, the
\* iterations in which a sensor read failed included.
C11_StatusEveryTick ==
    ev.branch # "start" => ev.status = 1

\* C12: in an iteration with valid sensors, T_pred is
\* T_curr + (DT/C) * (P - (T_curr - T_AMBIENT)/R) with P = ALPHA * util * freq
\* (= 3.5 * freq), enable_mitigation() is called iff T_pred > T_HIGH,
\* disable_mitigation() iff T_pred < T_LOW and nothing otherwise; for
\* T_curr = 74.0 and freq = 2.0 GHz the prediction is 70.3 and nothing changes.
C12_DecisionOnPrediction ==
    ValidTick =>
        /\ ev.T_pred - ev.T_curr
             = (7 * (ev.freq \div 2) - (ev.T_curr - 30 * Scale)) \div 10
        /\ ev.call = "enable" <=> ev.T_pred > 75 * Scale
        /\ ev.call = "disable" <=> ev.T_pred < 70 * Scale
        /\ ev.call \in {"enable", "disable", "none"}
        /\ (ev.T_curr = 74 * Scale /\ ev.freq = 2 * Scale) =>
               /\ ev.T_pred = 703 * (Scale \div 10)
               /\ ev.call = "none"
               /\ State = ev.pre

\* the scenario of 74.0 degrees at 2.0 GHz, met while mitigation is active
\* and the cooldown has elapsed
C12_Witness ==
    /\ ValidTick
    /\ ev.T_curr = 74 * Scale /\ ev.freq = 2 * Scale
    /\ ev.pre.active = 1
    /\ can_act(ev.pre.last, ev.t)

\* C13: in an iteration with valid sensors the critical report is emitted iff
\* T_pred > T_CRITICAL, whatever mitigation_active and the time since the last
\* action; the iteration changes the controller and the device exactly as the
\* call of enable_mitigation() alone does.
C13_CriticalReport ==
    ValidTick =>
        /\ ev.critical = 1 <=> ev.T_pred > 85 * Scale
        /\ ev.critical \in {0, 1}
        /\ ev.critical = 1 =>
             /\ ev.call = "enable"
             /\ (ev.pre.active = 1 \/ ev.t - ev.pre.last < ACTION_COOLDOWN)
                    => State = ev.pre
             /\ ev.rdo # "skipped" =>
                    State = enable_mitigation(ev.pre, ev.t, ev.stamp, ev.rdo,
                                              ev.rdv, ev.w = "ok")

\* a critical prediction while mitigation is already active
C13_Witness ==
    /\ ValidTick
    /\ ev.critical = 1
    /\ ev.pre.active = 1

\* The outcomes an iteration can meet, as <<sample, temperature file,
\* frequency file, read of scaling_max_freq, write of scaling_max_freq>>: a
\* critical prediction with every read and write outcome (only that branch
\* reads the file), a cold prediction, a negative reading and either sensor
\* file or both failing to open, each with the write succeeding or failing,
\* and a prediction in the dead zone.
FaultCases ==
    { <<(<<92000, 2000000>>), "ok", "ok", rr, wok>> :
          rr \in ReadResults, wok \in BOOLEAN }
    \cup { <<c[1], c[2], c[3], (<<"ok", 0>>), wok>> :
              c \in { <<(<<60000, 2000000>>), "ok", "ok">>,
                      <<(<<-500, 2000000>>), "ok", "ok">>,
                      <<(<<60000, 2000000>>), "nofile", "ok">>,
                      <<(<<60000, 2000000>>), "ok", "nofile">>,
                      <<(<<60000, 2000000>>), "nofile", "nofile">> },
              wok \in BOOLEAN }
    \cup { <<(<<74000, 2000000>>), "ok", "ok", (<<"ok", 0>>), TRUE>> }

\* C14: whatever the sensor files, the read and the write of
\* scaling_max_freq do in an iteration, the iteration completes and the loop
\* is ready for the next one: from every reachable state (short of the
\* clock's horizon) an iteration with each combination of faults is possible.
C14_LoopNeverStops ==
    now + DT <= MaxTime =>
        \A c \in FaultCases :
            ENABLED (\E d \in 0..MaxDrift, sl \in DT..MaxSleep :
                        TickWith(c[1], c[2], c[3], c[4], c[5], d, sl))

\* an iteration whose restoring write failed has completed and the loop goes on
C14_Witness ==
    /\ ev.w = "fail"
    /\ ev.call = "disable"
    /\ now + DT <= MaxTime
    /\ ENABLED Next

\* C16: at all times scaling_max_freq is the startup value F0 or
\* floor(0.7 * F0) (taken exactly or as the double product gives it), as long
\* as every value captured was one fscanf() converted: the reduction is never
\* applied to an already reduced value.
C16_BoundedCap ==
    ~hist.unassigned =>
        scaling_max_freq \in {hist.f0, (7 * hist.f0) \div 10, ReducedFreq(hist.f0)}

\* C17: an iteration with a failed sensor read or with T_pred < T_LOW, begun
\* ACTION_COOLDOWN seconds or more after the last action, ends with
\* mitigation_active = 0, and such an iteration begun with
\* mitigation_active = 0 leaves it 0; each iteration takes at least DT
\* seconds.  So under a run of such iterations mitigation is released by the
\* first one that starts at last_action_time + ACTION_COOLDOWN or later, and
\* stays released.
C17_EventualRelease ==
    (/\ ev.branch # "start"
     /\ \/ ev.T_curr < 0
        \/ ev.freq < 0
        \/ ev.T_pred < 70 * Scale) =>
        /\ ev.t - ev.pre.last >= ACTION_COOLDOWN => mitigation_active = 0
        /\ ev.pre.active = 0 => mitigation_active = 0
        /\ now >= ev.t + DT

\* the release happens in a sensor-failure iteration, after an earlier one
\* could not have released
C17_Witness ==
    /\ ev.branch = "sensor_fail"
    /\ Applied
    /\ ev.pre.last > StartTime

\* C18: an iteration with valid sensors, T_pred > T_HIGH and a positive value
\* from read_max_frequency(), begun ACTION_COOLDOWN seconds or more after the
\* last action, ends with mitigation_active = 1, and such an iteration begun
\* with mitigation_active = 1 leaves it 1; each iteration takes at least DT
\* seconds.  A request inside the cooldown is repeated by the next iterations
\* and is applied by the first one past the cooldown.
C18_EventualMitigation ==
    (/\ ValidTick
     /\ ev.T_pred > 75 * Scale
     /\ ev.rdo = "skipped" \/ ev.rdv > 0) =>
        /\ ev.t - ev.pre.last >= ACTION_COOLDOWN => mitigation_active = 1
        /\ ev.pre.active = 1 => mitigation_active = 1
        /\ now >= ev.t + DT

\* mitigation is enabled again, one cooldown after it was released
C18_Witness ==
    /\ Applied
    /\ ev.call = "enable"
    /\ ev.pre.last > 0
    /\ hist.applied >= 3

\* C19: the loop starts with mitigation_active = 0, last_action_time = 0 and
\* original_max_freq = -1; in every iteration last_action_time changes iff
\* mitigation_active flips, and never decreases; applied transitions
\* alternate, the first being an enable.
C19_StampToggle ==
    /\ ev.branch = "start" =>
          /\ mitigation_active = 0
          /\ last_action_time = 0
          /\ original_max_freq = -1
    /\ ev.branch # "start" =>
          /\ last_action_time # ev.pre.last <=> mitigation_active # ev.pre.active
          /\ last_action_time >= ev.pre.last
          /\ Applied => /\ ev.call = "enable" <=> ev.pre.active = 0
                        /\ ev.call = "disable" <=> ev.pre.active = 1
    /\ hist.applied % 2 = mitigation_active

\* the third applied transition, an enable
C19_Witness ==
    /\ Applied
    /\ hist.applied = 3
    /\ mitigation_active = 1

=============================================================================
